---- MODULE Spec2Model ----
(***************************************************************************)
(* The common-issues subsystem of the bot (src/bridget/cogs/issues.py):    *)
(* the issue store, the posts of the common-issues channel, the paginated  *)
(* table of contents and the add / edit / delete / reindex / importembeds  *)
(* command handlers.                                                       *)
(*                                                                         *)
(* The handlers are asyncio coroutines: the code between two awaits runs   *)
(* without interruption, so one action of this module is one such segment: *)
(* the platform call a coroutine was suspended on takes effect and the     *)
(* coroutine runs on to the next call that suspends it.  pc names the call *)
(* a coroutine is suspended on.                                            *)
(***************************************************************************)
EXTENDS Integers, Sequences, FiniteSets, TLC

VARIABLES
    issues,           \* guild_service.get_guild().issues: the stored records, in store order
    issues_list_msg,  \* guild_service.get_guild().issues_list_msg: the persisted index ids
    channel,          \* the messages present in the common-issues channel
    nextId,           \* the id the platform gives the next message sent
    snow,             \* the number of decimal digits of a snowflake id (guild, channel, message)
    gridfs,           \* the stored image blobs: [id, ctype]
    nextBlob,         \* the id the database gives the next blob stored
    task,             \* the coroutines: task[t] holds a handler's position and locals
    ncmds,            \* commands invoked so far
    ndeleted,         \* messages deleted by hand so far
    cases,            \* user_service.get_cases(member.id).cases, for each member
    warn_points,      \* user_service.get_user(member.id).warn_points, for each member
    lift              \* the last liftwarn command and its answer

\* The moderation state (src/bridget/cogs/mod.py), which no issue command touches.
mod == <<cases, warn_points, lift>>

vars == <<issues, issues_list_msg, channel, nextId, snow, gridfs, nextBlob, task, ncmds, ndeleted, mod>>

----------------------------------------------------------------------------
(* Bounds of the model *)

MaxTasks == 2         \* coroutine slots
MaxCmds == 2          \* commands invoked in one run
MaxUserDeletes == 1   \* messages a moderator deletes by hand in one run
OldPages == 2         \* index ids persisted before a directly invoked rebuild
HistoryChunk == 3     \* messages one request of channel.history returns (100 in discord.py)
MaxId == 12           \* the import stops re-posting at this message id
MaxCases == 2         \* cases in the database

(* Program constants *)

PageLimit == 3072     \* issues.py:110
LineLiteralLen == 38  \* issues.py:109, the literal characters of one line:
                      \* ". [" "](" "https://discord.com/channels/" "/" "/" ")" "\n"
MaxImageSize == 8000000  \* issues.py:277 and 341

Tasks == 1..MaxTasks

----------------------------------------------------------------------------
(* Values *)

\* A string is kept as its identity and its length.
Name(k, l) == [key |-> k, len |-> l]
NoName == Name(-1, 0)                 \* "" (Embed(title=""))
TableOfContents == Name(0, 17)        \* "Table of Contents"
Names == {Name(1, 10), Name(2, 10)}   \* the names the invokers use

SnowflakeDigits == 17..19
NameLens == {10, 256}
IssueCounts == {0, 1, 2, 9, 30, 500}

\* An Issue document; image is the id of its blob (0: no file), message_id 0 is None.
NoIssue ==
    [name |-> NoName, content |-> 0, color |-> 0, button_links |-> 0,
     image |-> 0, message_id |-> 0]

\* The attachment of a command; ctype "none" is no attachment.
NoAttachment == [ctype |-> "none", size |-> 0]
Attachment(c, n) == [ctype |-> c, size |-> n]
ImageTypes == {"image/png", "image/jpeg", "image/gif", "image/webp"}   \* lines 270-274

\* What the modal and the color parameter give: content, button links, color (0: none).
Form(c) == [content |-> c, button_links |-> c - 1, color |-> IF c = 1 THEN 0 ELSE 7]

\* A message of the channel.  footer: "Submitted by", "Page", "other" or "" (none);
\* image: the filename of the attachment; ref: the attachment the embed's image
\* refers to; stored: the issue had a stored image when the message was posted.
Message(id, bot, embed, title, footer) ==
    [id |-> id, bot |-> bot, embed |-> embed, title |-> title, footer |-> footer,
     page |-> 0, lines |-> <<>>, len |-> 0,
     content |-> 0, color |-> 0, button_links |-> 0, image |-> "none",
     ref |-> "none", stored |-> FALSE]

RECURSIVE Digits(_)
Digits(n) == IF n < 10 THEN 1 ELSE 1 + Digits(n \div 10)

Ids(S) == {m.id : m \in S}
Range(s) == {s[i] : i \in 1..Len(s)}

----------------------------------------------------------------------------
(* guild_service: the issue store, and the image blobs of the Issue documents *)

HasIssue(iss, name) == \E i \in 1..Len(iss) : iss[i].name = name
IndexOf(iss, name) ==
    CHOOSE i \in 1..Len(iss) :
        iss[i].name = name /\ \A j \in 1..(i - 1) : iss[j].name # name

\* get(name) -> Issue | absent
get_issue(iss, name) == IF HasIssue(iss, name) THEN iss[IndexOf(iss, name)] ELSE NoIssue
\* add(Issue)
add_issue(iss, issue) == Append(iss, issue)
\* edit(Issue): replace by name
edit_issue(iss, issue) ==
    IF HasIssue(iss, issue.name)
    THEN [iss EXCEPT ![IndexOf(iss, issue.name)] = issue]
    ELSE iss
\* remove(name)
remove_issue(iss, name) == SelectSeq(iss, LAMBDA x : x.name # name)

\* issue.image.read() and issue.image.content_type: "none" when there is no file
ReadImage(issue) ==
    IF \E b \in gridfs : b.id = issue.image
    THEN (CHOOSE b \in gridfs : b.id = issue.image).ctype
    ELSE "none"
\* issue.image.delete()
DeleteImage(issue) == {b \in gridfs : b.id # issue.image}
\* issue.image.put(image, content_type=content_type)
PutImage(g, id, ctype) == g \cup {[id |-> id, ctype |-> ctype]}

\* filename="image.gif" if issue.image.content_type == "image/gif" else "image.png"
FileName(ctype) ==
    IF ctype = "none" THEN "none"
    ELSE IF ctype = "image/gif" THEN "image.gif" ELSE "image.png"

\* hash_color(name).value
HashColor(name) == 100 + name.key
\* Color(issue.color).value or hash_color(issue.name).value (line 54)
EmbedColor(issue) == IF issue.color # 0 THEN issue.color ELSE HashColor(issue.name)

\* embed.set_image(url="attachment://image.gif" if issue.image.content_type ==
\* "image/gif" else "attachment://image.png"), if issue.image.read() is not None
\* (lines 56-58)
EmbedImage(issue) ==
    IF ReadImage(issue) = "none" THEN "none"
    ELSE IF ReadImage(issue) = "image/gif" THEN "image.gif" ELSE "image.png"

\* channel.send(file=..., embed=prepare_issue_embed(issue), view=prepare_issue_view(issue))
IssuePost(issue, file) ==
    [Message(issue.message_id, TRUE, TRUE, issue.name, "Submitted by")
        EXCEPT !.content = issue.content, !.color = EmbedColor(issue),
               !.button_links = issue.button_links, !.image = file,
               !.ref = EmbedImage(issue), !.stored = ReadImage(issue) # "none"]

----------------------------------------------------------------------------
(* refresh_common_issues *)

LineZeroBased(n, issue) == [n |-> n - 1, name |-> issue.name, mid |-> issue.message_id]
\* f"{i+1}. [{issue.name}](https://discord.com/channels/{guild.id}/{channel.id}/{issue.message_id})\n"
Line(n, issue) == [n |-> n, name |-> issue.name, mid |-> issue.message_id]
LineLenNoMessageId(n, issue) == Digits(n) + issue.name.len + 2 * snow + LineLiteralLen
\* len() of that line
LineLen(n, issue) == Digits(n) + issue.name.len + 3 * snow + LineLiteralLen

PageFullLate(len) == len > PageLimit + PageLimit
\* if len(desc) > 3072
PageFull(len) == len > PageLimit

\* The loop of lines 108-117 from the i-th issue of the snapshot, with an empty
\* buffer, up to the next channel.send or the end of the list.
RECURSIVE ScanIssues(_, _, _, _)
ScanIssues(snap, i, desc, len) ==
    IF i > Len(snap)
    THEN [i |-> i, desc |-> desc, len |-> len, flush |-> FALSE]
    ELSE LET d == Append(desc, Line(i, snap[i]))
             l == len + LineLen(i, snap[i])
         IN  IF PageFull(l)
             THEN [i |-> i + 1, desc |-> d, len |-> l, flush |-> TRUE]
             ELSE ScanIssues(snap, i + 1, d, l)

\* A coroutine with nothing running in it.
NoTask ==
    [pc |-> "idle", cmd |-> "none", no |-> 0, outcome |-> "none", error |-> "",
     name |-> NoName, att |-> NoAttachment, issue |-> NoIssue, riss |-> NoIssue,
     snap |-> <<>>, k |-> 0,
     color |-> 0, ibuf |-> <<>>, iafter |-> 0, ilast |-> FALSE, ifile |-> "none",
     rold |-> <<>>, rk |-> 0, rsnap |-> <<>>, ri |-> 0,
     rdesc |-> <<>>, rlen |-> 0, rpage |-> 0, rids |-> <<>>, rfinal |-> FALSE,
     rposted |-> <<>>, rstale |-> 0,
     \* what the handler has done so far, for the properties below (failures: the
     \* calls that raised and were passed over; gbefore: the stored images when
     \* the command was invoked)
     acked |-> FALSE, returned |-> FALSE, worked |-> FALSE,
     followups |-> 0, refreshes |-> 0, surfaced |-> 0, reply |-> "none",
     iposted |-> {}, iseen |-> <<>>, failures |-> 0, gbefore |-> {}]

\* The exceptions the handlers raise or let through.
Raised(outcome) == outcome \in {"BadArgument", "NotFound", "HTTPException", "ClientError"}

\* The handler returns, or an exception leaves the coroutine.  An exception that
\* leaves a command handler reaches app_command_error, which answers the invoker
\* (__main__.py lines 96-127); an exception that leaves a task started with
\* create_task, after the handler has returned, reaches no error handler.
Finish(tk, outcome, error) ==
    [tk EXCEPT !.pc = "done", !.outcome = outcome, !.error = error,
               !.surfaced = IF Raised(outcome) /\ ~tk.returned THEN @ + 1 ELSE @]

RefreshScanAlways(tk) ==
    LET r == ScanIssues(tk.rsnap, tk.ri, <<>>, 0)
    IN  [tk EXCEPT !.pc = "r_send", !.ri = r.i, !.rdesc = r.desc, !.rlen = r.len,
                   !.rpage = tk.rpage + 1, !.rfinal = ~r.flush]
\* Lines 108-123 from the position the coroutine is at: it is suspended on the
\* send of the next page, or has left the loop with nothing more to send.
RefreshScan(tk) ==
    LET r == ScanIssues(tk.rsnap, tk.ri, <<>>, 0)
    IN  IF r.flush \/ r.len > 0
        THEN [tk EXCEPT !.pc = "r_send", !.ri = r.i, !.rdesc = r.desc,
                        !.rlen = r.len, !.rpage = tk.rpage + 1,
                        !.rfinal = ~r.flush]
        ELSE [tk EXCEPT !.pc = "r_done", !.ri = r.i, !.rdesc = <<>>, !.rlen = 0]

\* Lines 103-108: the old pages are gone, the issues are read and the scan starts.
RefreshPages(tk, iss) ==
    RefreshScan([tk EXCEPT !.rsnap = iss, !.ri = 1, !.rpage = 0, !.rids = <<>>,
                           !.rposted = <<>>, !.rdesc = <<>>, !.rlen = 0])

\* Lines 92-98: entering the rebuild with the persisted ids `old` and the stored
\* issues `iss`.
RefreshBegin(tk, old, iss) ==
    LET tk0 == [tk EXCEPT !.rold = old, !.rk = 1, !.rstale = 0]
    IN  IF Len(old) > 0
        THEN [tk0 EXCEPT !.pc = "r_fetch"]
        ELSE RefreshPages(tk0, iss)

\* The next old id of the loop of lines 96-101, or on to the pages.
RefreshNextOld(tk, iss) ==
    IF tk.rk < Len(tk.rold)
    THEN [tk EXCEPT !.pc = "r_fetch", !.rk = tk.rk + 1]
    ELSE RefreshPages(tk, iss)

\* The caller's code after `await refresh_common_issues(...)` up to its next await.
ReturnFromRefresh(tk) ==
    LET tk1 == [tk EXCEPT !.refreshes = tk.refreshes + 1]
    IN  IF tk.cmd = "refresh"
        THEN [tk1 EXCEPT !.pc = "done", !.outcome = "ok"]
        ELSE [tk1 EXCEPT !.pc = "followup"]

\* Line 126 when the rebuild has nothing more to send: the ids are persisted and
\* the caller goes on; otherwise the coroutine stays suspended in the rebuild.
Resume(t, tk) ==
    IF tk.pc = "r_done"
    THEN /\ issues_list_msg' = tk.rids
         /\ task' = [task EXCEPT ![t] = ReturnFromRefresh(tk)]
    ELSE /\ UNCHANGED issues_list_msg
         /\ task' = [task EXCEPT ![t] = tk]

RefreshFetchAbort(t) ==
    LET tk == task[t] IN
    /\ tk.pc = "r_fetch"
    /\ IF tk.rold[tk.rk] \in Ids(channel)
       THEN Resume(t, [tk EXCEPT !.pc = "r_delete"])
       ELSE /\ task' = [task EXCEPT ![t] = Finish(tk, "NotFound", tk.pc)]
            /\ UNCHANGED issues_list_msg
    /\ UNCHANGED <<issues, channel, nextId, snow, mod, gridfs, nextBlob, ncmds, ndeleted>>

\* msg = await channel.fetch_message(id) (line 98)
RefreshFetch(t) ==
    LET tk == task[t] IN
    /\ tk.pc = "r_fetch"
    /\ IF tk.rold[tk.rk] \in Ids(channel)
       THEN Resume(t, [tk EXCEPT !.pc = "r_delete"])
       ELSE Resume(t, RefreshNextOld([tk EXCEPT !.rstale = tk.rstale + 1,
                                                !.failures = tk.failures + 1], issues))  \* except: pass
    /\ UNCHANGED <<issues, channel, nextId, snow, mod, gridfs, nextBlob, ncmds, ndeleted>>

\* await msg.delete() (line 99); a message already gone raises, and the except passes
RefreshDelete(t) ==
    LET tk == task[t] IN
    /\ tk.pc = "r_delete"
    /\ channel' = {m \in channel : m.id # tk.rold[tk.rk]}
    /\ Resume(t, RefreshNextOld([tk EXCEPT !.worked = TRUE], issues))
    /\ UNCHANGED <<issues, nextId, snow, mod, gridfs, nextBlob, ncmds, ndeleted>>

\* The embed of a page: lines 104, 111-113 and 115, 120-122.
PageMessage(id, tk) ==
    [Message(id, TRUE, TRUE, IF tk.rpage = 1 THEN TableOfContents ELSE NoName, "Page")
        EXCEPT !.page = tk.rpage, !.lines = tk.rdesc, !.len = tk.rlen]

\* msg = await channel.send(embed=embed) (lines 114 and 123)
RefreshSend(t) ==
    LET tk == task[t]
        msg == PageMessage(nextId, tk)
        tk1 == [tk EXCEPT !.rids = Append(tk.rids, msg.id),
                          !.rposted = Append(tk.rposted, msg), !.worked = TRUE]
    IN
    /\ tk.pc = "r_send"
    /\ channel' = channel \cup {msg}
    /\ nextId' = nextId + 1
    /\ IF tk.rfinal
       THEN Resume(t, [tk1 EXCEPT !.pc = "r_done"])
       ELSE Resume(t, RefreshScan(tk1))
    /\ UNCHANGED <<issues, snow, mod, gridfs, nextBlob, ncmds, ndeleted>>

----------------------------------------------------------------------------
(* The command handlers *)

\* A command can be invoked in slot t: concurrently with the running handlers
\* (conc), or only when none is running.
Free(t, conc) ==
    /\ ncmds < MaxCmds
    /\ task[t].pc \in {"idle", "done"}
    /\ conc \/ t = 1

Present(id) == id \in Ids(channel)
Without(id) == {m \in channel : m.id # id}

NameTakenNever(iss, name) == FALSE
\* if (guild_service.get_issue(name)) is not None (line 264)
NameTaken(iss, name) == get_issue(iss, name) # NoIssue

\* IssuesGroup.add, lines 264-284: the checks, then the modal is shown
AddStart(t, conc, name, att) ==
    LET tk == [NoTask EXCEPT !.cmd = "add", !.no = ncmds + 1, !.name = name, !.att = att] IN
    /\ Free(t, conc)
    /\ task' = [task EXCEPT ![t] =
          IF NameTaken(issues, name)
          THEN Finish(tk, "BadArgument", "Issue with that name already exists.")
          ELSE IF att # NoAttachment /\ att.ctype \notin ImageTypes
          THEN Finish(tk, "BadArgument", "Attached file was not an image!")
          ELSE IF att # NoAttachment /\ att.size > MaxImageSize
          THEN Finish(tk, "BadArgument", "That image is too big!")
          ELSE [tk EXCEPT !.pc = "add_modal"]]
    /\ ncmds' = ncmds + 1
    /\ UNCHANGED <<issues, issues_list_msg, channel, nextId, snow, mod, gridfs, nextBlob, ndeleted>>

\* await modal.wait() returns with modal.issue set; lines 286-303 up to the send
AddModalSubmit(t, c) ==
    LET tk == task[t]
        img == tk.att # NoAttachment
        issue == [NoIssue EXCEPT !.name = tk.name, !.content = Form(c).content,
                                 !.button_links = Form(c).button_links,
                                 !.image = IF img THEN nextBlob ELSE 0]
    IN
    /\ tk.pc = "add_modal"
    /\ gridfs' = IF img THEN PutImage(gridfs, nextBlob, tk.att.ctype) ELSE gridfs
    /\ nextBlob' = IF img THEN nextBlob + 1 ELSE nextBlob
    /\ task' = [task EXCEPT ![t] = [tk EXCEPT !.pc = "add_send", !.issue = issue,
                                              !.color = Form(c).color]]
    /\ UNCHANGED <<issues, issues_list_msg, channel, nextId, snow, mod, ncmds, ndeleted>>

\* the modal is closed: issue is None, return (lines 286-288)
AddModalDismiss(t) ==
    /\ task[t].pc = "add_modal"
    /\ task' = [task EXCEPT ![t] = Finish(task[t], "dismissed", "")]
    /\ UNCHANGED <<issues, issues_list_msg, channel, nextId, snow, mod, gridfs, nextBlob, ncmds, ndeleted>>

AddSendNoRefresh(t) ==
    LET tk == task[t]
        posted == [tk.issue EXCEPT !.message_id = nextId]
        stored == [posted EXCEPT !.color = IF tk.color # 0 THEN tk.color
                                           ELSE HashColor(tk.name)]
    IN
    /\ tk.pc = "add_send"
    /\ channel' = channel \cup {IssuePost(posted, FileName(ReadImage(posted)))}
    /\ nextId' = nextId + 1
    /\ issues' = add_issue(issues, stored)
    /\ task' = [task EXCEPT ![t] = [tk EXCEPT !.issue = stored, !.pc = "followup"]]
    /\ UNCHANGED <<issues_list_msg, snow, mod, gridfs, nextBlob, ncmds, ndeleted>>

\* ci_msg = await channel.send(...) (line 303), then lines 304-312: the record is
\* stored and the rebuild starts
AddSend(t) ==
    LET tk == task[t]
        posted == [tk.issue EXCEPT !.message_id = nextId]
        stored == [posted EXCEPT !.color = IF tk.color # 0 THEN tk.color
                                           ELSE HashColor(tk.name)]
        iss == add_issue(issues, stored)
    IN
    /\ tk.pc = "add_send"
    /\ channel' = channel \cup {IssuePost(posted, FileName(ReadImage(posted)))}
    /\ nextId' = nextId + 1
    /\ issues' = iss
    /\ Resume(t, RefreshBegin([tk EXCEPT !.issue = stored], issues_list_msg, iss))
    /\ UNCHANGED <<snow, mod, gridfs, nextBlob, ncmds, ndeleted>>

\* The last response of a handler: ctx.followup.send(...) (lines 153, 204, 314,
\* 379) or send_success (line 412).
Followup(t) ==
    LET tk == task[t] IN
    /\ tk.pc = "followup"
    /\ task' = [task EXCEPT ![t] =
                  Finish([tk EXCEPT !.followups = tk.followups + 1], "ok", "")]
    /\ UNCHANGED <<issues, issues_list_msg, channel, nextId, snow, mod, gridfs, nextBlob, ncmds, ndeleted>>

\* Issues.issue (lines 221-247): the lookup answers the invoker with the issue's
\* post; limited: the cooldown bucket is exhausted and the invoker is no moderator
Lookup(t, conc, name, limited) ==
    LET tk == [NoTask EXCEPT !.cmd = "issue", !.no = ncmds + 1, !.name = name]
        found == get_issue(issues, name)
    IN
    /\ Free(t, conc)
    /\ task' = [task EXCEPT ![t] =
          IF found = NoIssue
          THEN Finish(tk, "BadArgument", "That issue does not exist.")
          ELSE IF limited
          THEN Finish(tk, "BadArgument", "That issue is on cooldown.")
          ELSE Finish([tk EXCEPT !.issue = found, !.reply = FileName(ReadImage(found))],
                      "ok", "")]
    /\ ncmds' = ncmds + 1
    /\ UNCHANGED <<issues, issues_list_msg, channel, nextId, snow, mod, gridfs, nextBlob, ndeleted>>

EditStartReplacesFirst(t, conc, name, att) ==
    LET tk == [NoTask EXCEPT !.cmd = "edit", !.no = ncmds + 1, !.name = name, !.att = att,
                             !.gbefore = gridfs]
        found == get_issue(issues, name)
        img == att # NoAttachment
    IN
    /\ Free(t, conc)
    /\ task' = [task EXCEPT ![t] =
          IF found = NoIssue
          THEN Finish(tk, "BadArgument", "That issue does not exist.")
          ELSE IF img /\ att.size > MaxImageSize
          THEN Finish(tk, "BadArgument", "That image is too big!")
          ELSE [tk EXCEPT !.pc = "edit_modal",
                          !.issue = [found EXCEPT !.image = IF img THEN nextBlob ELSE 0]]]
    /\ gridfs' = IF found = NoIssue THEN gridfs
                 ELSE IF img THEN PutImage(DeleteImage(found), nextBlob, att.ctype)
                 ELSE DeleteImage(found)
    /\ nextBlob' = IF found # NoIssue /\ img THEN nextBlob + 1 ELSE nextBlob
    /\ ncmds' = ncmds + 1
    /\ UNCHANGED <<issues, issues_list_msg, channel, nextId, snow, mod, ndeleted>>

\* IssuesGroup.edit, lines 333-355: the stored image is replaced or deleted, then
\* the modal is shown
EditStart(t, conc, name, att) ==
    LET tk == [NoTask EXCEPT !.cmd = "edit", !.no = ncmds + 1, !.name = name, !.att = att,
                             !.gbefore = gridfs]
        found == get_issue(issues, name)
        img == att # NoAttachment
        ok == found # NoIssue /\ ~(img /\ att.size > MaxImageSize)
    IN
    /\ Free(t, conc)
    /\ task' = [task EXCEPT ![t] =
          IF found = NoIssue
          THEN Finish(tk, "BadArgument", "That issue does not exist.")
          ELSE IF img /\ att.size > MaxImageSize
          THEN Finish(tk, "BadArgument", "That image is too big!")
          ELSE [tk EXCEPT !.pc = "edit_modal",
                          !.issue = [found EXCEPT !.image = IF img THEN nextBlob ELSE 0]]]
    /\ gridfs' = IF ~ok THEN gridfs
                 ELSE IF img THEN PutImage(DeleteImage(found), nextBlob, att.ctype)
                 ELSE DeleteImage(found)
    /\ nextBlob' = IF ok /\ img THEN nextBlob + 1 ELSE nextBlob
    /\ ncmds' = ncmds + 1
    /\ UNCHANGED <<issues, issues_list_msg, channel, nextId, snow, mod, ndeleted>>

\* the modal is submitted: lines 361-376, the record is stored
EditModalSubmit(t, c) ==
    LET tk == task[t]
        issue == [tk.issue EXCEPT !.content = Form(c).content,
                                  !.button_links = Form(c).button_links,
                                  !.color = IF Form(c).color # 0 THEN Form(c).color
                                            ELSE HashColor(tk.name)]
    IN
    /\ tk.pc = "edit_modal"
    /\ issues' = edit_issue(issues, issue)
    /\ task' = [task EXCEPT ![t] = [tk EXCEPT !.pc = "edit_fetch", !.issue = issue]]
    /\ UNCHANGED <<issues_list_msg, channel, nextId, snow, mod, gridfs, nextBlob, ncmds, ndeleted>>

\* the modal is closed: "Issue edit was cancelled." (lines 357-359)
EditModalDismiss(t) ==
    /\ task[t].pc = "edit_modal"
    /\ task' = [task EXCEPT ![t] = Finish(task[t], "cancelled", "Issue edit was cancelled.")]
    /\ UNCHANGED <<issues, issues_list_msg, channel, nextId, snow, mod, gridfs, nextBlob, ncmds, ndeleted>>

\* ci_msg = await channel.fetch_message(issue.message_id) (line 376)
EditFetch(t) ==
    LET tk == task[t] IN
    /\ tk.pc = "edit_fetch"
    /\ task' = [task EXCEPT ![t] =
          IF Present(tk.issue.message_id)
          THEN [tk EXCEPT !.pc = "edit_edit"]
          ELSE Finish(tk, "NotFound", tk.pc)]
    /\ UNCHANGED <<issues, issues_list_msg, channel, nextId, snow, mod, gridfs, nextBlob, ncmds, ndeleted>>

\* await ci_msg.edit(...) (line 377), then the followup is sent
EditEdit(t) ==
    LET tk == task[t]
        id == tk.issue.message_id
    IN
    /\ tk.pc = "edit_edit"
    /\ IF Present(id)
       THEN /\ channel' = Without(id) \cup {IssuePost(tk.issue, FileName(ReadImage(tk.issue)))}
            /\ task' = [task EXCEPT ![t] = [tk EXCEPT !.pc = "followup"]]
       ELSE /\ UNCHANGED channel
            /\ task' = [task EXCEPT ![t] = Finish(tk, "NotFound", tk.pc)]
    /\ UNCHANGED <<issues, issues_list_msg, nextId, snow, mod, gridfs, nextBlob, ncmds, ndeleted>>

\* IssuesGroup.delete, lines 394-403: the stored image is deleted, then the post is fetched
DeleteStart(t, conc, name) ==
    LET tk == [NoTask EXCEPT !.cmd = "delete", !.no = ncmds + 1, !.name = name,
                             !.gbefore = gridfs]
        found == get_issue(issues, name)
    IN
    /\ Free(t, conc)
    /\ task' = [task EXCEPT ![t] =
          IF found = NoIssue
          THEN Finish(tk, "BadArgument", "That issue does not exist.")
          ELSE [tk EXCEPT !.pc = "del_fetch", !.issue = found]]
    /\ gridfs' = IF found = NoIssue THEN gridfs ELSE DeleteImage(found)
    /\ ncmds' = ncmds + 1
    /\ UNCHANGED <<issues, issues_list_msg, channel, nextId, snow, mod, nextBlob, ndeleted>>

\* ci_msg = await channel.fetch_message(issue.message_id) (line 403)
DeleteFetch(t) ==
    LET tk == task[t] IN
    /\ tk.pc = "del_fetch"
    /\ task' = [task EXCEPT ![t] =
          IF Present(tk.issue.message_id)
          THEN [tk EXCEPT !.pc = "del_delete"]
          ELSE Finish(tk, "NotFound", tk.pc)]
    /\ UNCHANGED <<issues, issues_list_msg, channel, nextId, snow, mod, gridfs, nextBlob, ncmds, ndeleted>>

\* await ci_msg.delete() (line 404), then lines 407-410: the record is removed and
\* the rebuild starts
DeleteDelete(t) ==
    LET tk == task[t]
        id == tk.issue.message_id
        iss == remove_issue(issues, tk.name)
    IN
    /\ tk.pc = "del_delete"
    /\ IF Present(id)
       THEN /\ channel' = Without(id)
            /\ issues' = iss
            /\ Resume(t, RefreshBegin(tk, issues_list_msg, iss))
       ELSE /\ UNCHANGED <<channel, issues, issues_list_msg>>
            /\ task' = [task EXCEPT ![t] = Finish(tk, "NotFound", tk.pc)]
    /\ UNCHANGED <<nextId, snow, mod, gridfs, nextBlob, ncmds, ndeleted>>

\* IssuesGroup.reindex (line 423) and IssuesGroup.importembeds (line 435): the
\* handler is suspended on ctx.response.defer
BatchStart(t, conc, cmd) ==
    /\ Free(t, conc)
    /\ task' = [task EXCEPT ![t] = [NoTask EXCEPT !.cmd = cmd, !.no = ncmds + 1, !.pc = "defer"]]
    /\ ncmds' = ncmds + 1
    /\ UNCHANGED <<issues, issues_list_msg, channel, nextId, snow, mod, gridfs, nextBlob, ndeleted>>

DeferAfterBatch(tk) == [tk EXCEPT !.pc = "batch"]
\* await ctx.response.defer(...) has acknowledged; create_task(...) schedules the
\* batch and the handler returns (lines 423-424 and 435-436)
Deferred(tk) == [tk EXCEPT !.acked = TRUE, !.returned = TRUE, !.pc = "batch"]

Defer(t) ==
    /\ task[t].pc = "defer"
    /\ task' = [task EXCEPT ![t] = Deferred(task[t])]
    /\ UNCHANGED <<issues, issues_list_msg, channel, nextId, snow, mod, gridfs, nextBlob, ncmds, ndeleted>>

\* do_reindex, lines 129-133: the issues are read and the first post is fetched
ReindexBegin(t) ==
    LET tk == [task[t] EXCEPT !.snap = issues, !.k = 1] IN
    /\ task[t].pc = "batch"
    /\ task[t].cmd = "reindex"
    /\ IF issues = <<>>
       THEN Resume(t, RefreshBegin(tk, issues_list_msg, issues))
       ELSE Resume(t, [tk EXCEPT !.pc = "rx_fetch"])
    /\ UNCHANGED <<issues, channel, nextId, snow, mod, gridfs, nextBlob, ncmds, ndeleted>>

\* msg = await channel.fetch_message(issue.message_id) (line 133); except: pass
ReindexFetch(t) ==
    LET tk == task[t] IN
    /\ tk.pc = "rx_fetch"
    /\ task' = [task EXCEPT ![t] =
          IF Present(tk.snap[tk.k].message_id)
          THEN [tk EXCEPT !.pc = "rx_delete"]
          ELSE [tk EXCEPT !.pc = "rx_send", !.failures = tk.failures + 1]]
    /\ UNCHANGED <<issues, issues_list_msg, channel, nextId, snow, mod, gridfs, nextBlob, ncmds, ndeleted>>

\* await msg.delete() (line 134); except: pass
ReindexDelete(t) ==
    LET tk == task[t] IN
    /\ tk.pc = "rx_delete"
    /\ channel' = Without(tk.snap[tk.k].message_id)
    /\ task' = [task EXCEPT ![t] = [tk EXCEPT !.pc = "rx_send", !.worked = TRUE]]
    /\ UNCHANGED <<issues, issues_list_msg, nextId, snow, mod, gridfs, nextBlob, ncmds, ndeleted>>

ReindexedIssueRehashed(issue, id) == [issue EXCEPT !.message_id = id, !.color = HashColor(issue.name)]
\* issue.message_id = msg.id (line 147)
ReindexedIssue(issue, id) == [issue EXCEPT !.message_id = id]

\* msg = await channel.send(...) (line 146), then lines 147-149 and the next
\* issue, or the rebuild (line 152)
ReindexSend(t) ==
    LET tk == task[t]
        issue == ReindexedIssue(tk.snap[tk.k], nextId)
        iss == edit_issue(issues, issue)
        tk1 == [tk EXCEPT !.worked = TRUE]
    IN
    /\ tk.pc = "rx_send"
    /\ channel' = channel \cup {IssuePost(issue, FileName(ReadImage(issue)))}
    /\ nextId' = nextId + 1
    /\ issues' = iss
    /\ IF tk.k < Len(tk.snap)
       THEN Resume(t, [tk1 EXCEPT !.pc = "rx_fetch", !.k = tk.k + 1])
       ELSE Resume(t, RefreshBegin(tk1, issues_list_msg, iss))
    /\ UNCHANGED <<snow, mod, gridfs, nextBlob, ncmds, ndeleted>>

QualifiesAnyEmbed(m) == m.bot /\ m.embed
\* The skip rules of lines 161-171.
Qualifies(m) == m.bot /\ m.embed /\ m.footer # "" /\ m.footer = "Submitted by"

\* Lines 174-184: the Issue built from a message's embed.
ImportedIssue(m) ==
    [NoIssue EXCEPT !.name = m.title, !.content = m.content, !.color = m.color,
                    !.button_links = m.button_links]

\* The messages of S in ascending id order.
RECURSIVE Oldest(_, _)
Oldest(S, n) ==
    IF S = {} \/ n = 0 THEN <<>>
    ELSE LET m == CHOOSE x \in S : \A y \in S : x.id <= y.id
         IN  <<m>> \o Oldest(S \ {m}, n - 1)

\* The loop of line 160 from the head of the fetched messages up to the next
\* await: the send for a qualifying message, the next request of the history, or
\* the rebuild once the history is exhausted.
RECURSIVE ImportNext(_, _, _)
ImportNext(tk, old, iss) ==
    IF tk.ibuf = <<>>
    THEN IF tk.ilast THEN RefreshBegin(tk, old, iss) ELSE [tk EXCEPT !.pc = "im_hist"]
    ELSE IF Qualifies(Head(tk.ibuf))
    THEN LET tk1 == [tk EXCEPT !.issue = ImportedIssue(Head(tk.ibuf)), !.ifile = "none",
                               !.iseen = Append(tk.iseen, Head(tk.ibuf).id)]
         IN  IF Head(tk.ibuf).image # "none"          \* if embed.image.url (line 180)
             THEN [tk1 EXCEPT !.pc = "im_image"]
             ELSE [tk1 EXCEPT !.pc = "im_send", !.riss = get_issue(iss, tk1.issue.name)]
    ELSE ImportNext([tk EXCEPT !.ibuf = Tail(tk.ibuf)], old, iss)

\* do_import, lines 158-160: the first request of the history
ImportBegin(t) ==
    /\ task[t].pc = "batch"
    /\ task[t].cmd = "import"
    /\ task' = [task EXCEPT ![t] = [task[t] EXCEPT !.pc = "im_hist", !.iafter = 0]]
    /\ UNCHANGED <<issues, issues_list_msg, channel, nextId, snow, mod, gridfs, nextBlob, ncmds, ndeleted>>

\* channel.history(limit=None, oldest_first=True): the next messages after the last
\* one seen, at most HistoryChunk of them; fewer than that ends the history
ImportHistory(t) ==
    LET tk == task[t]
        chunk == Oldest({m \in channel : m.id > tk.iafter}, HistoryChunk)
        tk1 == [tk EXCEPT !.ibuf = chunk,
                          !.iafter = IF chunk = <<>> THEN tk.iafter
                                     ELSE chunk[Len(chunk)].id,
                          !.ilast = Len(chunk) < HistoryChunk]
    IN
    /\ tk.pc = "im_hist"
    /\ Resume(t, ImportNext(tk1, issues_list_msg, issues))
    /\ UNCHANGED <<issues, channel, nextId, snow, mod, gridfs, nextBlob, ncmds, ndeleted>>

\* What get_discord_file_from_url (lines 24-36) gives for the image of an embed:
\* a discord.File named file.png (line 32), None when the status is not 200
\* (line 36), or the exception of the request.
FetchedFiles == {"file.png", "none", "ClientError"}

\* iss.image = await get_discord_file_from_url(embed.image.url) (line 181), then
\* riss = guild_service.get_issue(iss.name) (line 182) and on to the send; no
\* blob is put in the store
ImportImage(t, f) ==
    LET tk == task[t] IN
    /\ tk.pc = "im_image"
    /\ task' = [task EXCEPT ![t] =
          IF f = "ClientError" THEN Finish(tk, "ClientError", "session.get")
          ELSE [tk EXCEPT !.pc = "im_send", !.ifile = f,
                          !.riss = get_issue(issues, tk.issue.name)]]
    /\ UNCHANGED <<issues, issues_list_msg, channel, nextId, snow, mod, gridfs, nextBlob, ncmds, ndeleted>>

ImportSendAlwaysAdds(t) ==
    LET tk == task[t]
        issue == [tk.issue EXCEPT !.message_id = nextId]
    IN
    /\ tk.pc = "im_send"
    /\ nextId <= MaxId
    /\ channel' = channel \cup {IssuePost(issue, tk.ifile)}
    /\ nextId' = nextId + 1
    /\ issues' = add_issue(issues, issue)
    /\ task' = [task EXCEPT ![t] = [tk EXCEPT !.pc = "im_delete", !.issue = issue,
                                              !.worked = TRUE,
                                              !.iposted = @ \cup {nextId}]]
    /\ UNCHANGED <<issues_list_msg, snow, mod, gridfs, nextBlob, ncmds, ndeleted>>

\* msg = await channel.send(file=iss.image or MISSING, ...) (line 191), then
\* lines 192-197: the record is edited or added
ImportSend(t) ==
    LET tk == task[t]
        issue == [tk.issue EXCEPT !.message_id = nextId]
    IN
    /\ tk.pc = "im_send"
    /\ nextId <= MaxId
    /\ channel' = channel \cup {IssuePost(issue, tk.ifile)}
    /\ nextId' = nextId + 1
    /\ issues' = IF tk.riss # NoIssue THEN edit_issue(issues, issue)
                 ELSE add_issue(issues, issue)
    /\ task' = [task EXCEPT ![t] = [tk EXCEPT !.pc = "im_delete", !.issue = issue,
                                              !.worked = TRUE,
                                              !.iposted = @ \cup {nextId}]]
    /\ UNCHANGED <<issues_list_msg, snow, mod, gridfs, nextBlob, ncmds, ndeleted>>

\* await message.delete() (line 198), then the next message
ImportDelete(t) ==
    LET tk == task[t]
        id == Head(tk.ibuf).id
    IN
    /\ tk.pc = "im_delete"
    /\ IF Present(id)
       THEN /\ channel' = Without(id)
            /\ Resume(t, ImportNext([tk EXCEPT !.ibuf = Tail(tk.ibuf)], issues_list_msg, issues))
       ELSE /\ UNCHANGED <<channel, issues_list_msg>>
            /\ task' = [task EXCEPT ![t] = Finish(tk, "NotFound", tk.pc)]
    /\ UNCHANGED <<issues, nextId, snow, mod, gridfs, nextBlob, ncmds, ndeleted>>

\* The call the coroutine is suspended on depends on message m being there.
Concerns(tk, m) ==
    \/ tk.pc \in {"r_fetch", "r_delete"} /\ tk.rold[tk.rk] = m.id
    \/ tk.pc \in {"edit_fetch", "edit_edit", "del_fetch", "del_delete"}
            /\ tk.issue.message_id = m.id
    \/ tk.pc \in {"rx_fetch", "rx_delete"} /\ tk.snap[tk.k].message_id = m.id
    \/ tk.pc = "im_delete" /\ Head(tk.ibuf).id = m.id
    \/ tk.pc = "im_hist" /\ m.id > tk.iafter

\* A moderator deletes a message of the channel by hand ("if someone accidentally
\* deletes something", line 97).  The bot sees a deletion only through the next
\* call that depends on the message, and the deletion commutes with every other
\* step, so it is taken when a coroutine is suspended on such a call.
UserDelete(m) ==
    /\ ndeleted < MaxUserDeletes
    /\ m \in channel
    /\ \E t \in Tasks : Concerns(task[t], m)
    /\ channel' = channel \ {m}
    /\ ndeleted' = ndeleted + 1
    /\ UNCHANGED <<issues, issues_list_msg, nextId, snow, mod, gridfs, nextBlob, task, ncmds>>

----------------------------------------------------------------------------
(* Mod.liftwarn (src/bridget/cogs/mod.py) *)

Members == {1, 2}
CaseIds == 1..MaxCases
CaseTypes == {"WARN", "KICK"}
\* points: app_commands.Range[int, 1, 10] (mod.py line 18)
WarnPoints == {1, 10}
\* The warn points a member may have when the bot starts.
StartPoints == {0, 1, 11}

\* A number as the decimal string the case keeps in punishment.
RECURSIVE str(_)
str(n) == IF n < 10 THEN <<n>> ELSE Append(str(n \div 10), n % 10)
\* int(case.punishment)
RECURSIVE int(_)
int(s) == IF s = <<>> THEN 0 ELSE 10 * int(SubSeq(s, 1, Len(s) - 1)) + s[Len(s)]

Case(id, type, points, lifted) ==
    [_id |-> id, _type |-> type, punishment |-> str(points), lifted |-> lifted]

NoLift == [member |-> 0, case_id |-> 0, reply |-> "none"]

\* cases.cases.filter(_id=case_id).first(): the position of the case, 0 for None
FirstCase(cs, case_id) ==
    IF \E i \in 1..Len(cs) : cs[i]._id = case_id
    THEN CHOOSE i \in 1..Len(cs) :
            cs[i]._id = case_id /\ \A j \in 1..(i - 1) : cs[j]._id # case_id
    ELSE 0

LiftwarnNoPointsCheck(member, case_id) ==
    LET cs == cases[member]
        i == FirstCase(cs, case_id)
        answer(r) == lift' = [member |-> member, case_id |-> case_id, reply |-> r]
    IN
    /\ IF i = 0 \/ cs[i]._type # "WARN" \/ cs[i].lifted
       THEN /\ answer("error")
            /\ UNCHANGED <<cases, warn_points>>
       ELSE /\ cases' = [cases EXCEPT ![member][i].lifted = TRUE]
            /\ warn_points' = [warn_points EXCEPT ![member] = @ - int(cs[i].punishment)]
            /\ answer("lifted")
    /\ UNCHANGED <<issues, issues_list_msg, channel, nextId, snow, gridfs, nextBlob, task, ncmds, ndeleted>>

\* Mod.liftwarn, lines 48-79: the sanity checks, then the case is marked lifted
\* and saved and the points are taken off; no await lies between the reads of
\* lines 48 and 65 and the writes of lines 76 and 79
Liftwarn(member, case_id) ==
    LET cs == cases[member]
        i == FirstCase(cs, case_id)
        answer(r) == lift' = [member |-> member, case_id |-> case_id, reply |-> r]
    IN
    /\ IF i = 0
       THEN /\ answer("has no case with ID")
            /\ UNCHANGED <<cases, warn_points>>
       ELSE IF cs[i]._type # "WARN"
       THEN /\ answer("is not a warn case")
            /\ UNCHANGED <<cases, warn_points>>
       ELSE IF cs[i].lifted
       THEN /\ answer("already lifted")
            /\ UNCHANGED <<cases, warn_points>>
       ELSE IF warn_points[member] - int(cs[i].punishment) < 0
       THEN /\ answer("would make points negative")
            /\ UNCHANGED <<cases, warn_points>>
       ELSE /\ cases' = [cases EXCEPT ![member][i].lifted = TRUE]
            /\ warn_points' = [warn_points EXCEPT ![member] = @ - int(cs[i].punishment)]
            /\ answer("lifted")
    /\ UNCHANGED <<issues, issues_list_msg, channel, nextId, snow, gridfs, nextBlob, task, ncmds, ndeleted>>

\* The moderation state before any case is opened.
NoCases ==
    /\ cases = [m \in Members |-> <<>>]
    /\ warn_points = [m \in Members |-> 0]
    /\ lift = NoLift

\* The cases of owner o, in id order, among the cases c.
RECURSIVE CasesOf(_, _, _, _)
CasesOf(o, owner, c, id) ==
    IF id > MaxCases THEN <<>>
    ELSE IF owner[id] = o THEN <<c[id]>> \o CasesOf(o, owner, c, id + 1)
    ELSE CasesOf(o, owner, c, id + 1)

\* Any database of cases and points: each case belongs to one member, is a warn
\* or another kind of case, lifted or not; the points are not negative.
InitWarn ==
    \E owner \in [CaseIds -> Members], type \in [CaseIds -> CaseTypes],
       points \in [CaseIds -> WarnPoints], lifted \in [CaseIds -> BOOLEAN],
       wp \in [Members -> StartPoints] :
        /\ cases = [m \in Members |->
                        CasesOf(m, owner,
                                [id \in CaseIds |-> Case(id, type[id], points[id], lifted[id])], 1)]
        /\ warn_points = wp
        /\ lift = NoLift
        /\ issues = <<>>
        /\ issues_list_msg = <<>>
        /\ channel = {}
        /\ nextId = 1
        /\ snow = 19
        /\ gridfs = {}
        /\ nextBlob = 1
        /\ task = [t \in Tasks |-> NoTask]
        /\ ncmds = 0
        /\ ndeleted = 0

NextWarn == \E member \in Members, case_id \in 1..(MaxCases + 1) : Liftwarn(member, case_id)

SpecWarn == InitWarn /\ [][NextWarn]_vars

----------------------------------------------------------------------------
(* The bot from its first command *)

Attachments ==
    {NoAttachment, Attachment("image/png", 1000), Attachment("text/plain", 1000),
     Attachment("image/png", MaxImageSize + 1)}
Forms == {1, 2}

\* A message the channel holds before the first command.
Legacy(kind, id) ==
    IF kind = "issue1"
    THEN [Message(id, TRUE, TRUE, Name(1, 10), "Submitted by")
            EXCEPT !.content = 1, !.color = HashColor(Name(1, 10))]
    ELSE IF kind = "issue2"
    THEN [Message(id, TRUE, TRUE, Name(2, 10), "Submitted by")
            EXCEPT !.content = 2, !.color = 7, !.button_links = 1,
                   !.image = "image.png", !.ref = "image.png", !.stored = TRUE]
    ELSE IF kind = "toc"
    THEN [Message(id, TRUE, TRUE, TableOfContents, "Page") EXCEPT !.page = 1]
    ELSE Message(id, FALSE, FALSE, NoName, "")

\* The channel before the first command: empty, or the posts of an earlier bot.
Histories ==
    {<<>>, <<"issue1", "issue2">>, <<"issue1", "issue1">>, <<"toc", "user", "issue1">>}

Init ==
    \E h \in Histories :
        /\ issues = <<>>
        /\ issues_list_msg = <<>>
        /\ channel = {Legacy(h[i], i) : i \in 1..Len(h)}
        /\ nextId = Len(h) + 1
        /\ snow = 19
        /\ gridfs = {}
        /\ nextBlob = 1
        /\ task = [t \in Tasks |-> NoTask]
        /\ ncmds = 0
        /\ ndeleted = 0
        /\ NoCases

Next(conc) ==
    \/ \E t \in Tasks :
        \/ \E name \in Names, att \in Attachments :
            \/ AddStart(t, conc, name, att)
            \/ EditStart(t, conc, name, att)
        \/ \E name \in Names : DeleteStart(t, conc, name)
        \/ \E name \in Names, limited \in BOOLEAN : Lookup(t, conc, name, limited)
        \/ \E cmd \in {"reindex", "import"} : BatchStart(t, conc, cmd)
        \/ \E c \in Forms : AddModalSubmit(t, c) \/ EditModalSubmit(t, c)
        \/ AddModalDismiss(t)
        \/ AddSend(t)
        \/ EditModalDismiss(t)
        \/ EditFetch(t)
        \/ EditEdit(t)
        \/ DeleteFetch(t)
        \/ DeleteDelete(t)
        \/ Defer(t)
        \/ ReindexBegin(t)
        \/ ReindexFetch(t)
        \/ ReindexDelete(t)
        \/ ReindexSend(t)
        \/ ImportBegin(t)
        \/ ImportHistory(t)
        \/ \E f \in FetchedFiles : ImportImage(t, f)
        \/ ImportSend(t)
        \/ ImportDelete(t)
        \/ RefreshFetch(t)
        \/ RefreshDelete(t)
        \/ RefreshSend(t)
        \/ Followup(t)
    \/ \E m \in channel : UserDelete(m)

NextSeq == Next(FALSE)
NextConc == Next(TRUE)

\* One command at a time: a command is invoked when no handler is running.
Spec == Init /\ [][NextSeq]_vars
\* Commands are invoked while other handlers are suspended.
SpecConc == Init /\ [][NextConc]_vars

----------------------------------------------------------------------------
(* Platform calls that fail *)

\* The calls made inside try/except (lines 97-101 and 132-136).
CaughtPcs == {"r_fetch", "r_delete", "rx_fetch", "rx_delete"}
\* The calls made outside any try: the sends, the fetch and delete of edit and
\* delete, and the history, send and delete of the import.
UncaughtPcs ==
    {"r_send", "rx_send", "im_hist", "im_send", "im_delete",
     "add_send", "edit_fetch", "edit_edit", "del_fetch", "del_delete"}

\* The call raises (the platform refuses or is unreachable) and the bare except
\* passes: the next old id (line 96), or the send of the re-post (line 146)
CaughtFailure(t) ==
    LET tk == task[t] IN
    /\ tk.pc \in CaughtPcs
    /\ IF tk.pc \in {"r_fetch", "r_delete"}
       THEN Resume(t, RefreshNextOld([tk EXCEPT !.rstale = tk.rstale + 1,
                                                !.failures = tk.failures + 1], issues))
       ELSE Resume(t, [tk EXCEPT !.pc = "rx_send", !.failures = tk.failures + 1])
    /\ UNCHANGED <<issues, channel, nextId, snow, mod, gridfs, nextBlob, ncmds, ndeleted>>

UncaughtFailureSkips(t) ==
    LET tk == task[t] IN
    /\ tk.pc \in UncaughtPcs
    /\ task' = [task EXCEPT ![t] =
          IF tk.pc = "im_send" THEN [tk EXCEPT !.pc = "im_delete"]
          ELSE Finish(tk, "HTTPException", tk.pc)]
    /\ UNCHANGED <<issues, issues_list_msg, channel, nextId, snow, mod, gridfs, nextBlob, ncmds, ndeleted>>

\* The call raises and nothing catches it: the exception leaves the coroutine
\* with the call's effect not made
UncaughtFailure(t) ==
    LET tk == task[t] IN
    /\ tk.pc \in UncaughtPcs
    /\ task' = [task EXCEPT ![t] = Finish(tk, "HTTPException", tk.pc)]
    /\ UNCHANGED <<issues, issues_list_msg, channel, nextId, snow, mod, gridfs, nextBlob, ncmds, ndeleted>>

NextFail ==
    \/ NextSeq
    \/ \E t \in Tasks : CaughtFailure(t) \/ UncaughtFailure(t)

\* One command at a time, with platform calls that may fail.
SpecFail == Init /\ [][NextFail]_vars

\* The reindex and import batches alone, on the posts of an earlier bot, with
\* platform calls that may fail.
NextBatch ==
    \/ \E t \in Tasks :
        \/ \E cmd \in {"reindex", "import"} : BatchStart(t, FALSE, cmd)
        \/ Defer(t)
        \/ ReindexBegin(t)
        \/ ReindexFetch(t)
        \/ ReindexDelete(t)
        \/ ReindexSend(t)
        \/ ImportBegin(t)
        \/ ImportHistory(t)
        \/ \E f \in FetchedFiles : ImportImage(t, f)
        \/ ImportSend(t)
        \/ ImportDelete(t)
        \/ RefreshFetch(t)
        \/ RefreshDelete(t)
        \/ RefreshSend(t)
        \/ Followup(t)
        \/ CaughtFailure(t)
        \/ UncaughtFailure(t)
    \/ \E m \in channel : UserDelete(m)

SpecBatch == Init /\ [][NextBatch]_vars

----------------------------------------------------------------------------
(* The rebuild invoked on its own, on a store and an index of any size *)

StoredIssue(i, l) ==
    [NoIssue EXCEPT !.name = Name(i, l), !.content = 1, !.message_id = OldPages + i]

OldPage(j) == [Message(j, TRUE, TRUE, IF j = 1 THEN TableOfContents ELSE NoName, "Page")
                  EXCEPT !.page = j]

InitPages ==
    \E n \in IssueCounts, a \in NameLens, b \in NameLens, w \in SnowflakeDigits,
       kept \in SUBSET (1..OldPages) :
        /\ gridfs = {}
        /\ nextBlob = 1
        /\ issues = [i \in 1..n |-> StoredIssue(i, IF i % 2 = 1 THEN a ELSE b)]
        /\ issues_list_msg = [j \in 1..OldPages |-> j]
        /\ channel = {OldPage(j) : j \in kept}
                        \cup {IssuePost(StoredIssue(i, IF i % 2 = 1 THEN a ELSE b), "none") : i \in 1..n}
        /\ nextId = OldPages + n + 1
        /\ snow = w
        /\ task = [t \in Tasks |-> NoTask]
        /\ ncmds = 0
        /\ ndeleted = 0
        /\ NoCases

\* await refresh_common_issues(guild)
CallRefresh(t) ==
    /\ t = 1
    /\ task[t].pc = "idle"
    /\ Resume(t, RefreshBegin([NoTask EXCEPT !.cmd = "refresh", !.no = ncmds + 1], issues_list_msg, issues))
    /\ ncmds' = ncmds + 1
    /\ UNCHANGED <<issues, channel, nextId, snow, mod, gridfs, nextBlob, ndeleted>>

NextPages ==
    \E t \in Tasks :
        \/ CallRefresh(t)
        \/ RefreshFetch(t)
        \/ RefreshDelete(t)
        \/ RefreshSend(t)

SpecPages == InitPages /\ [][NextPages]_vars

----------------------------------------------------------------------------
(* Properties of the rebuild *)

RECURSIVE Concat(_)
Concat(ss) == IF ss = <<>> THEN <<>> ELSE Head(ss) \o Concat(Tail(ss))

LineChars(ln) == Digits(ln.n) + ln.name.len + 3 * snow + LineLiteralLen
Posted(t) == task[t].rposted
Rebuilt(t) == task[t].cmd = "refresh" /\ task[t].pc = "done"
TenCharNames == \A i \in 1..Len(issues) : issues[i].name.len = 10

\* C3 as stated: no posted page description is longer than 3072 characters.
C3_PageWithinLimit ==
    \A t \in Tasks : \A p \in 1..Len(Posted(t)) : Posted(t)[p].len <= PageLimit

\* C3, amended: the buffer is flushed once a line has made it longer than 3072
\* characters, so every posted page holds at most 3072 characters before its
\* last line, and every page but the last holds more than 3072.
C3_PageWithinLimitBeforeLastLine ==
    \A t \in Tasks : \A p \in 1..Len(Posted(t)) :
        LET pg == Posted(t)[p] IN
        /\ Len(pg.lines) > 0
        /\ pg.len - LineChars(pg.lines[Len(pg.lines)]) <= PageLimit
        /\ (p < Len(Posted(t)) => pg.len > PageLimit)

C3_Witness ==
    \E t \in Tasks : Len(Posted(t)) >= 2 /\ Posted(t)[1].len > PageLimit

\* C4 as stated: 500 issues with names of 10 characters give exactly 3 pages,
\* footers 1..3, and a persisted id list of length 3.
C4_ThreePages ==
    \A t \in Tasks :
        (Rebuilt(t) /\ Len(issues) = 500 /\ TenCharNames) =>
            /\ Len(Posted(t)) = 3
            /\ Len(issues_list_msg) = 3
            /\ \A p \in 1..Len(Posted(t)) : Posted(t)[p].page = p

\* C4, amended: a line is the whole markdown link (number, name and the URL with
\* three snowflake ids), so 500 issues with names of 10 characters give 17 pages
\* when the ids have 17 or 18 digits and 18 pages when they have 19; the footers
\* carry 1..k in posting order and the persisted id list has length k.
C4_PageCount ==
    \A t \in Tasks :
        (Rebuilt(t) /\ Len(issues) = 500 /\ TenCharNames) =>
            LET k == IF snow = 19 THEN 18 ELSE 17 IN
            /\ Len(Posted(t)) = k
            /\ Len(issues_list_msg) = k
            /\ \A p \in 1..Len(Posted(t)) : Posted(t)[p].page = p

C4_Witness ==
    \E t \in Tasks : Rebuilt(t) /\ Len(issues) = 500 /\ TenCharNames /\ snow = 19

\* C5: after a rebuild the pages, read in page order, hold one line per stored
\* issue, in store order, numbered 1..n, each with the issue's name and current
\* message_id; no page is empty.
C5_OneLinePerIssue ==
    \A t \in Tasks :
        Rebuilt(t) =>
            /\ Concat([p \in 1..Len(Posted(t)) |-> Posted(t)[p].lines])
                 = [i \in 1..Len(issues) |->
                        [n |-> i, name |-> issues[i].name, mid |-> issues[i].message_id]]
            /\ \A p \in 1..Len(Posted(t)) : Posted(t)[p].lines # <<>>

C5_Witness ==
    \E t \in Tasks : Rebuilt(t) /\ Len(Posted(t)) >= 2 /\ Len(issues) >= 9

\* C6: a rebuild always completes, whichever old pages were already gone; the
\* persisted list is then the ids of the pages it posted, in page order, and no
\* message of the old list is left in the channel.
C6_IndexReplaced ==
    \A t \in Tasks :
        Rebuilt(t) =>
            /\ task[t].outcome = "ok"
            /\ issues_list_msg = [p \in 1..Len(Posted(t)) |-> Posted(t)[p].id]
            /\ \A p \in 1..Len(Posted(t)) : Posted(t)[p] \in channel
            /\ Range(task[t].rold) \cap Ids(channel) = {}
            /\ Range(task[t].rold) \cap Range(issues_list_msg) = {}

C6_Witness ==
    \E t \in Tasks :
        /\ Rebuilt(t)
        /\ task[t].rstale >= 1
        /\ task[t].rstale < Len(task[t].rold)
        /\ Len(Posted(t)) >= 1

\* C7: a rebuild with no stored issue posts no page and persists an empty list,
\* after deleting the old pages.
C7_EmptyIndex ==
    \A t \in Tasks :
        (Rebuilt(t) /\ issues = <<>>) =>
            /\ task[t].outcome = "ok"
            /\ Posted(t) = <<>>
            /\ issues_list_msg = <<>>
            /\ \A m \in channel : m.footer # "Page"

C7_Witness ==
    \E t \in Tasks :
        Rebuilt(t) /\ issues = <<>> /\ task[t].rstale < Len(task[t].rold)

----------------------------------------------------------------------------
(* Properties of the commands *)

Done(t, cmd) == task[t].cmd = cmd /\ task[t].pc = "done"
Succeeded(t, cmd) == Done(t, cmd) /\ task[t].outcome = "ok"
Records(iss, name) == {i \in 1..Len(iss) : iss[i].name = name}
\* The step invokes a command in slot t.
Invoked(t) == ncmds' = ncmds + 1 /\ task'[t].no = ncmds'

\* C1: an add invoked with a name that a record already has fails with the
\* validation error; the store keeps its one record of the name and nothing is
\* stored or posted.
C1_DuplicateAddRejected ==
    [][\A t \in Tasks :
        (Invoked(t) /\ task'[t].cmd = "add" /\ HasIssue(issues, task'[t].name)) =>
            /\ task'[t].pc = "done"
            /\ task'[t].outcome = "BadArgument"
            /\ task'[t].error = "Issue with that name already exists."
            /\ Cardinality(Records(issues', task'[t].name)) = 1
            /\ issues' = issues
            /\ channel' = channel
            /\ gridfs' = gridfs
            /\ issues_list_msg' = issues_list_msg]_vars

C1_Witness ==
    \E t \in Tasks :
        /\ Done(t, "add")
        /\ task[t].error = "Issue with that name already exists."
        /\ Cardinality(Records(issues, task[t].name)) = 1
        /\ ncmds = 2

\* C2: no two records of the store have the same name.
C2_UniqueNames ==
    \A i \in 1..Len(issues) : \A j \in 1..Len(issues) :
        issues[i].name = issues[j].name => i = j

Mutating == {"add", "edit", "delete", "reindex", "import"}

C9_ReindexKeepsContent ==
    \A t \in Tasks :
        Succeeded(t, "reindex") =>
            LET old == task[t].snap IN
            /\ Len(issues) = Len(old)
            /\ \A i \in 1..Len(issues) :
                /\ issues[i] = [old[i] EXCEPT !.message_id = issues[i].message_id]
                /\ issues[i].message_id # old[i].message_id
                /\ \A j \in 1..Len(old) : issues[i].message_id > old[j].message_id
                /\ \A j \in 1..Len(issues) :
                        issues[i].message_id = issues[j].message_id => i = j
                /\ \A m \in channel :
                        m.id = issues[i].message_id =>
                            /\ m.title = issues[i].name
                            /\ m.content = issues[i].content
                            /\ m.footer = "Submitted by"

C9_Witness ==
    \E t \in Tasks :
        /\ Succeeded(t, "reindex")
        /\ Len(task[t].snap) = 2
        /\ \E m \in channel : m.id = issues[2].message_id

BatchPcs ==
    {"batch", "rx_fetch", "rx_delete", "rx_send", "im_hist", "im_image", "im_send", "im_delete",
     "r_fetch", "r_delete", "r_send", "followup"}

\* C10: a reindex or import has acknowledged before its batch deletes or posts
\* anything, its handler has returned while the batch runs, and the one
\* completion follow-up is sent after the rebuild, once the batch has completed.
C10_AckBeforeBatch ==
    \A t \in Tasks :
        task[t].cmd \in {"reindex", "import"} =>
            /\ task[t].worked => task[t].acked
            /\ task[t].pc \in BatchPcs => (task[t].acked /\ task[t].returned)
            /\ task[t].refreshes > 0 => task[t].acked
            /\ task[t].followups <= 1
            /\ task[t].followups = 1 => (task[t].pc = "done" /\ task[t].refreshes = 1)
            /\ (task[t].pc = "done" /\ task[t].outcome = "ok") =>
                    (task[t].followups = 1 /\ task[t].refreshes = 1)

C10_Witness ==
    \E t \in Tasks :
        /\ Succeeded(t, "import")
        /\ task[t].worked
        /\ task[t].followups = 1
        /\ Len(issues) = 2

----------------------------------------------------------------------------
(* Properties of the batches *)

Batch(t) == task[t].cmd \in {"reindex", "import"}
\* The calls made for one item of a batch, outside any try: the send of a re-post
\* (lines 146 and 191) and the delete of an imported original (line 198).
ItemCalls == {"rx_send", "im_send", "im_delete"}
\* The step is one of the import running in slot t.
ImportStep(t) ==
    /\ task[t].cmd = "import"
    /\ task[t].pc \notin {"idle", "done"}
    /\ task'[t] # task[t]
    /\ task'[t].no = task[t].no

\* C11: a reindex or import batch never ends on the exception of a call made
\* for one item (the send of its re-post, the delete of its original): the
\* failure is passed over and the batch goes on to the rebuild and the follow-up.
C11_ItemFailureTolerated ==
    \A t \in Tasks :
        (Batch(t) /\ task[t].pc = "done") =>
            ~(Raised(task[t].outcome) /\ task[t].error \in ItemCalls)

\* The messages the import is to skip: not authored by a bot, no embed, no
\* footer text, or a footer text that does not start with "Submitted by".
Skipped(m) == ~m.bot \/ ~m.embed \/ m.footer = "" \/ m.footer # "Submitted by"

\* C12: no step of an import removes or changes a message it is to skip, the
\* index pages its closing rebuild replaces apart, and every record a step of
\* an import adds or changes carries the title of the message being converted,
\* which is not one to skip.
C12_SkippedUntouched ==
    [][\A t \in Tasks :
        ImportStep(t) =>
            /\ \A m \in channel :
                    (Skipped(m) /\ m.id \notin Range(task[t].rold)) => m \in channel'
            /\ issues' # issues =>
                    /\ task[t].pc = "im_send"
                    /\ ~Skipped(Head(task[t].ibuf))
                    /\ Len(issues') >= Len(issues)
                    /\ \A i \in 1..Len(issues') :
                            (i > Len(issues) \/ issues'[i] # issues[i]) =>
                                issues'[i].name = Head(task[t].ibuf).title]_vars

C12_Witness ==
    \E t \in Tasks :
        /\ Succeeded(t, "import")
        /\ Len(issues) >= 1
        /\ \E m \in channel : ~m.bot
        /\ \E m \in channel : m.footer = "Page" /\ m.id \notin Range(issues_list_msg)

\* C13: when an import has completed, no bot-authored message titled "Table of
\* ..." is left in the channel but the pages its own rebuild posted, and no
\* record carries such a title.
C13_LegacyIndexDeleted ==
    \A t \in Tasks :
        Succeeded(t, "import") =>
            /\ \A m \in channel :
                    (m.bot /\ m.embed /\ m.title = TableOfContents) =>
                        m \in Range(task[t].rposted)
            /\ ~HasIssue(issues, TableOfContents)

\* C14: the step of an import that stores the record of a converted message
\* replaces the one record of that name when the store has one, the others
\* untouched, and appends one record when it has none; either way the store
\* then holds exactly one record of the name, with the id of the re-post.
C14_ImportOverwrites ==
    [][\A t \in Tasks :
        (ImportStep(t) /\ task[t].pc = "im_send" /\ task'[t].pc = "im_delete") =>
            LET name == task[t].issue.name IN
            /\ Cardinality(Records(issues', name)) = 1
            /\ \A i \in Records(issues', name) : issues'[i].message_id = nextId
            /\ IF HasIssue(issues, name)
               THEN /\ Len(issues') = Len(issues)
                    /\ \A i \in 1..Len(issues) :
                            issues[i].name # name => issues'[i] = issues[i]
               ELSE /\ Len(issues') = Len(issues) + 1
                    /\ \A i \in 1..Len(issues) : issues'[i] = issues[i]]_vars

C14_Witness ==
    \E t \in Tasks :
        /\ Succeeded(t, "import")
        /\ Len(task[t].iseen) = 2
        /\ Len(issues) = 1
        /\ issues[1].message_id \in task[t].iposted

\* C15: the send of an import either posts the re-post and stores its id in the
\* record with the original still in the channel, or fails and leaves the
\* channel, the records and the images as they were, the original included;
\* the delete that follows removes nothing but the original and changes no
\* record.
C15_RepostRecordDelete ==
    [][\A t \in Tasks :
        ImportStep(t) =>
            LET orig == Head(task[t].ibuf) IN
            /\ task[t].pc = "im_send" =>
                \/ /\ task'[t].pc = "im_delete"
                   /\ \E m \in channel' \ channel : m.id = nextId /\ m.title = orig.title
                   /\ \E i \in 1..Len(issues') :
                        issues'[i].name = orig.title /\ issues'[i].message_id = nextId
                   /\ channel \subseteq channel'
                \/ /\ task'[t].pc = "done"
                   /\ Raised(task'[t].outcome)
                   /\ channel' = channel
                   /\ issues' = issues
                   /\ gridfs' = gridfs
            /\ task[t].pc = "im_delete" =>
                /\ issues' = issues
                /\ channel' \subseteq channel
                /\ channel \ channel' \subseteq {orig}
                /\ \E i \in 1..Len(issues) :
                        issues[i].message_id = task[t].issue.message_id]_vars

C15_Witness ==
    \E t \in Tasks :
        /\ Done(t, "import")
        /\ task[t].outcome = "HTTPException"
        /\ task[t].error = "im_send"
        /\ Head(task[t].ibuf) \in channel
        /\ ~HasIssue(issues, Head(task[t].ibuf).title)

\* The command invoked in slot t fails one of the validations of the handlers.
FailsValidation(t) ==
    LET tk == task'[t] IN
    \/ tk.cmd = "add" /\ HasIssue(issues, tk.name)
    \/ tk.cmd = "add" /\ tk.att # NoAttachment /\ tk.att.ctype \notin ImageTypes
    \/ tk.cmd \in {"add", "edit"} /\ tk.att # NoAttachment /\ tk.att.size > MaxImageSize
    \/ tk.cmd \in {"edit", "delete", "issue"} /\ ~HasIssue(issues, tk.name)

----------------------------------------------------------------------------
(* Properties of errors, images and the import's scan *)

\* C17: every coroutine that an exception has left has had that exception
\* surfaced to the invoker, once.
C17_ExceptionsSurfaced ==
    \A t \in Tasks :
        (task[t].pc = "done" /\ Raised(task[t].outcome)) => task[t].surfaced = 1

C19_StoredImageTypes == \A b \in gridfs : b.ctype \in ImageTypes

\* C20: an import converts no message twice and never converts a message it
\* posted itself.
C20_ProcessedOnce ==
    \A t \in Tasks :
        task[t].cmd = "import" =>
            /\ Range(task[t].iseen) \cap task[t].iposted = {}
            /\ \A i \in 1..Len(task[t].iseen) : \A j \in 1..Len(task[t].iseen) :
                    task[t].iseen[i] = task[t].iseen[j] => i = j

----------------------------------------------------------------------------
(* Properties of the posts, of delete and edit, and of interleaved rebuilds *)

IssuePosts == {m \in channel : m.footer = "Submitted by"}
\* An issue post of the name of a stored issue that no record refers to.
Orphan(m) ==
    /\ m \in IssuePosts
    /\ HasIssue(issues, m.title)
    /\ \A i \in 1..Len(issues) : issues[i].message_id # m.id

\* C21: when an import or reindex has completed with no failed call and no
\* message deleted by hand, every record's message_id names an issue post of
\* the channel, no two records name the same post, and no orphan is left.
C21_OnePostPerIssue ==
    \A t \in Tasks :
        ((Succeeded(t, "import") \/ Succeeded(t, "reindex"))
                /\ task[t].failures = 0 /\ ndeleted = 0) =>
            /\ \A i \in 1..Len(issues) :
                    \E m \in IssuePosts :
                        m.id = issues[i].message_id /\ m.title = issues[i].name
            /\ \A m \in channel : ~Orphan(m)

\* The command in slot t has ended on an exception that is not a validation error.
Failed(t, cmd) ==
    Done(t, cmd) /\ Raised(task[t].outcome) /\ task[t].outcome # "BadArgument"

\* C22: a delete that succeeds has removed the record, its post and its stored
\* image and has rebuilt the index; a delete that fails at any step has left
\* the record and the stored images as they were, and has not removed the post.
C22_DeleteAllOrNothing ==
    \A t \in Tasks :
        /\ Succeeded(t, "delete") =>
                /\ ~HasIssue(issues, task[t].name)
                /\ ~Present(task[t].issue.message_id)
                /\ \A b \in gridfs : b.id # task[t].issue.image
                /\ task[t].refreshes = 1
        /\ Failed(t, "delete") =>
                /\ get_issue(issues, task[t].name) = task[t].issue
                /\ gridfs = task[t].gbefore

\* C23: when an edit has been cancelled, the record, the stored images and the
\* post of the issue are as they were when the command was invoked.
C23_CancelledEditChangesNothing ==
    \A t \in Tasks :
        (Done(t, "edit") /\ task[t].outcome = "cancelled") =>
            /\ gridfs = task[t].gbefore
            /\ HasIssue(issues, task[t].name)
            /\ task[t].worked = FALSE

\* C24: once every handler has finished, every index page a rebuild posted that
\* is still in the channel is recorded in the persisted list, and the persisted
\* pages present in the channel are numbered 1..k in list order.
C24_InterleavedRebuildsSafe ==
    (\A t \in Tasks : task[t].pc \in {"idle", "done"}) =>
        /\ \A t \in Tasks : \A p \in 1..Len(task[t].rposted) :
                task[t].rposted[p] \in channel =>
                    task[t].rposted[p].id \in Range(issues_list_msg)
        /\ \A k \in 1..Len(issues_list_msg) : \A m \in channel :
                m.id = issues_list_msg[k] => m.page = k

----------------------------------------------------------------------------
(* Properties of liftwarn *)

\* The points of a case: the number its punishment is the decimal string of.
PointsOf(c) == CHOOSE n \in 0..10 : str(n) = c.punishment

\* C25: every liftwarn leaves the points of every member at 0 or more and
\* leaves a lifted case as it is; it changes the state only when the member
\* has the case, the case is a warn, is not lifted and the member's points less
\* the case's points are at least 0, and then it marks that case lifted and
\* takes exactly its points off the member; otherwise it answers with an error
\* and changes neither the cases nor the points.
C25_LiftwarnSound ==
    [][(cases' # cases \/ warn_points' # warn_points \/ lift' # lift) =>
        LET m == lift'.member
            cs == cases[m]
            hits == {i \in 1..Len(cs) : cs[i]._id = lift'.case_id}
            Liftable(i) ==
                /\ cs[i]._type = "WARN"
                /\ ~cs[i].lifted
                /\ warn_points[m] - PointsOf(cs[i]) >= 0
        IN
        /\ m \in Members
        /\ \A x \in Members : warn_points'[x] >= 0
        /\ \A x \in Members : \A i \in 1..Len(cases[x]) :
                cases[x][i].lifted => cases'[x][i] = cases[x][i]
        /\ IF \E i \in hits : Liftable(i)
           THEN \E i \in hits :
                    /\ Liftable(i)
                    /\ cases' = [cases EXCEPT ![m][i].lifted = TRUE]
                    /\ warn_points' = [warn_points EXCEPT ![m] = @ - PointsOf(cs[i])]
                    /\ lift'.reply = "lifted"
           ELSE /\ cases' = cases
                /\ warn_points' = warn_points
                /\ lift'.reply \notin {"lifted", "none"}]_vars

C25_Witness ==
    /\ lift.reply = "would make points negative"
    /\ warn_points[lift.member] = 1
    /\ \E i \in 1..Len(cases[lift.member]) :
            /\ cases[lift.member][i].lifted
            /\ cases[lift.member][i]._type = "WARN"
            /\ cases[lift.member][i].punishment = <<1, 0>>
    /\ \E i \in 1..Len(cases[lift.member]) :
            /\ ~cases[lift.member][i].lifted
            /\ cases[lift.member][i]._id = lift.case_id

====
